---- MODULE Spec2Model ----
(***************************************************************************)
(* The OS operations of cli/ops/os.rs (op_start, op_home_dir,              *)
(* op_exec_path, op_set_env, op_env, op_exit, op_is_tty) as a state        *)
(* machine: one sequential caller dispatches requests against a process    *)
(* whose environment the handlers read and write.                          *)
(*                                                                         *)
(* A handler is an operator over (state, env, req, obs) that yields        *)
(* [out, env]: its result and the process environment it leaves behind.    *)
(* obs is what the host answers to the handler's OS queries during the     *)
(* call (current dir, home dir, current exe, terminal attachment).         *)
(***************************************************************************)
EXTENDS Integers, Sequences, FiniteSets, TLC

VARIABLES
  state,      \* the ThreadSafeState handed to every handler
  env,        \* the process environment (std::env)
  proc,       \* "running", "exited" (std::process::exit) or "panicked"
  exit_code,  \* the status the process exited with
  last,       \* the latest dispatch: request, host answers, outcome, response
  written,    \* per name, the value of the latest set_env that returned Ok
  held        \* the mapping the caller got from its latest successful env read

vars == <<state, env, proc, exit_code, last, written, held>>

\* the command ids the caller hands out: 1..MaxCmdId
MaxCmdId == 2

\* ------------------------------------------------------------ value sets
Missing == "<missing>"
Unset == "<unset>"
NonUnicode == "<non-unicode>"
NoHome == "<no-home>"
NoModule == "<no-main-module>"
NoDelim == "<no-delim>"
NoLevel == "<no-log-level>"

\* names env::set_var accepts, and one it rejects (it holds '=')
GoodKeys == {"FOO", "BAR"}
BadKeys == {"A=B"}
Keys == GoodKeys \cup BadKeys
Vals == {"bar", "baz"}

CmdIds == 1..MaxCmdId

Streams == {"stdin", "stdout", "stderr"}

\* ThreadSafeState as the handlers read it: argv, flags, main module and the
\* permission policy state.check_env() consults.
Profiles ==
  { [argv |-> <<"deno">>, main_module |-> NoModule,
     flags |-> [log_level |-> NoLevel, version |-> TRUE, xeval_delim |-> NoDelim]],
    [argv |-> <<"deno", "run", "main.ts">>, main_module |-> "file:///main.ts",
     flags |-> [log_level |-> "Debug", version |-> FALSE, xeval_delim |-> NoDelim]],
    [argv |-> <<"deno", "xeval", "-d", ",">>, main_module |-> NoModule,
     flags |-> [log_level |-> "Info", version |-> FALSE, xeval_delim |-> ","]] }

SandboxStates ==
  { [argv |-> p.argv, flags |-> p.flags, main_module |-> p.main_module,
     allow_env |-> a] : p \in Profiles, a \in BOOLEAN }

\* the process environment: every name is unset, or holds text, or holds bytes
\* that are not valid unicode (only the host can have put those there)
InitEnvs ==
  { [k \in GoodKeys |-> Unset],
    [k \in GoodKeys |-> IF k = "FOO" THEN "baz" ELSE Unset],
    [k \in GoodKeys |-> IF k = "BAR" THEN NonUnicode ELSE Unset] }

\* ------------------------------------------------------------- requests
\* base.inner_as_set_env(): absent, or a SetEnv table whose key and value
\* may each be absent
SetEnvInners ==
  {[present |-> FALSE]}
    \cup [present : {TRUE}, key : Keys \cup {Missing}, value : Vals \cup {Missing}]

\* the JSON args of exit, by what `code` holds: nothing, a string, an integer
\* that fits i32, an integer that does not
JsonAbsent == [t |-> "absent"]
JsonStr(v) == [t |-> "str", v |-> v]
JsonI32(v) == [t |-> "i32", v |-> v]
JsonBigInt == [t |-> "bigint"]
ExitCodes == {0, 7, -1}
ExitArgs ==
  {JsonAbsent, JsonStr("seven"), JsonBigInt} \cup {JsonI32(v) : v \in ExitCodes}

\* an answer of the host to an OS query: a value, or a failure
HostOk(v) == [ok |-> TRUE, v |-> v]
HostErr == [ok |-> FALSE]

Paths ==
  { [abs |-> TRUE, segs |-> <<"usr", "bin", "deno">>],
    [abs |-> TRUE, segs |-> <<"usr", ".", "bin", "..", "bin", "deno">>],
    [abs |-> FALSE, segs |-> <<"deno">>] }

Cwds == { <<"work">>, <<"work", ".", "a">> }

HomeDirs == {NoHome, NonUnicode, "/home/u"}

NoObs == [none |-> TRUE]
NoBody == [none |-> TRUE]

StartObs ==
  [ cwd : {HostErr} \cup {HostOk(c) : c \in Cwds}, use_color : BOOLEAN, pid : {4242} ]
HomeObs == [ home : HomeDirs ]
ExeObs == [ exe : {HostErr} \cup {HostOk(p) : p \in Paths} ]
TtyObs == [ tty : [Streams -> BOOLEAN] ]

\* ------------------------------------------------------------ outcomes
\* what a handler hands back: Ok(buf), Ok(JsonOp::Sync(value)), Err(e),
\* or no return at all (a panic unwinding, std::process::exit)
OkBuf(buf) == [kind |-> "Buf", buf |-> buf]
OkJson(value) == [kind |-> "Json", value |-> value]
Err(e) == [kind |-> "Err", err |-> e]
Panic(line) == [kind |-> "Panic", line |-> line]
Exited(code) == [kind |-> "Exit", code |-> code]

NoResponse == [kind |-> "NoResponse"]


\* ------------------------------------------------- collaborators' contracts
\* Permission Gate: state.check_env()
check_env(st) == IF st.allow_env THEN "Ok" ELSE "PermissionDenied"

\* Response Envelope Encoder: serialize_response(cmd_id, builder, BaseArgs)
serialize_response(cmd_id, inner_type, inner) ==
  [cmd_id |-> cmd_id, inner_type |-> inner_type, inner |-> inner]

\* empty_buf() takes no argument: the buffer it returns cannot carry the
\* request's command id
empty_buf == [inner_type |-> "NONE"]

\* deno_fs::normalize_path: no relative "." segment is left
normalize_path(p) == SelectSeq(p, LAMBDA sgm : sgm # ".")

\* the URL parser applied to a path: "." dropped, ".." takes back a segment
RECURSIVE UrlResolve(_, _)
UrlResolve(segs, acc) ==
  IF segs = <<>> THEN acc
  ELSE LET h == Head(segs) IN
       IF h = "." THEN UrlResolve(Tail(segs), acc)
       ELSE IF h = ".."
         THEN UrlResolve(Tail(segs),
                         IF acc = <<>> THEN acc ELSE SubSeq(acc, 1, Len(acc) - 1))
         ELSE UrlResolve(Tail(segs), Append(acc, h))

\* ------------------------------------------------------------- handlers
op_start(st, e, req, obs) ==
  IF req.data THEN [out |-> Panic(23), env |-> e]
  ELSE IF ~obs.cwd.ok THEN [out |-> Panic(30), env |-> e]
  ELSE
    LET inner ==
          [ cwd |-> normalize_path(obs.cwd.v),
            pid |-> obs.pid,
            argv |-> st.argv,
            main_module |-> st.main_module,
            debug_flag |-> (st.flags.log_level = "Debug"),
            version_flag |-> st.flags.version,
            v8_version |-> "v8",
            deno_version |-> "deno",
            no_color |-> ~obs.use_color,
            xeval_delim |-> st.flags.xeval_delim ]
    IN [out |-> OkBuf(serialize_response(req.cmd_id, "StartRes", inner)),
        env |-> e]

\* op_home_dir encoding its response under the builder's default command id
\* instead of base.cmd_id()
op_home_dir_default_id(st, e, req, obs) ==
  IF req.data THEN [out |-> Panic(88), env |-> e]
  ELSE IF check_env(st) # "Ok" THEN [out |-> Err(check_env(st)), env |-> e]
  ELSE
    LET path == IF obs.home \in {NoHome, NonUnicode} THEN "" ELSE obs.home
    IN [out |-> OkBuf(serialize_response(0, "HomeDirRes", [path |-> path])),
        env |-> e]

\* op_home_dir failing when the host has no home directory, instead of
\* unwrap_or_default()
op_home_dir_no_default(st, e, req, obs) ==
  IF req.data THEN [out |-> Panic(88), env |-> e]
  ELSE IF check_env(st) # "Ok" THEN [out |-> Err(check_env(st)), env |-> e]
  ELSE IF obs.home \in {NoHome, NonUnicode}
    THEN [out |-> Err("NotFound"), env |-> e]
  ELSE [out |-> OkBuf(serialize_response(req.cmd_id, "HomeDirRes",
                                         [path |-> obs.home])),
        env |-> e]

op_home_dir(st, e, req, obs) ==
  IF req.data THEN [out |-> Panic(88), env |-> e]
  ELSE IF check_env(st) # "Ok" THEN [out |-> Err(check_env(st)), env |-> e]
  ELSE
    LET path == IF obs.home \in {NoHome, NonUnicode} THEN "" ELSE obs.home
    IN [out |-> OkBuf(serialize_response(req.cmd_id, "HomeDirRes",
                                         [path |-> path])),
        env |-> e]

op_exec_path(st, e, req, obs) ==
  IF check_env(st) # "Ok" THEN [out |-> Err(check_env(st)), env |-> e]
  ELSE IF ~obs.exe.ok THEN [out |-> Panic(119), env |-> e]
  ELSE IF ~obs.exe.v.abs THEN [out |-> Panic(122), env |-> e]
  ELSE [out |-> OkJson([abs |-> TRUE, segs |-> UrlResolve(obs.exe.v.segs, <<>>)]),
        env |-> e]

\* op_set_env that leaves a name alone once it holds a value
op_set_env_keep_first(st, e, req, obs) ==
  IF req.data THEN [out |-> Panic(132), env |-> e]
  ELSE IF ~req.body.present THEN [out |-> Panic(133), env |-> e]
  ELSE IF req.body.key = Missing THEN [out |-> Panic(134), env |-> e]
  ELSE IF req.body.value = Missing THEN [out |-> Panic(135), env |-> e]
  ELSE IF check_env(st) # "Ok" THEN [out |-> Err(check_env(st)), env |-> e]
  ELSE IF req.body.key \in BadKeys THEN [out |-> Panic(137), env |-> e]
  ELSE [out |-> OkBuf(empty_buf),
        env |-> IF e[req.body.key] = Unset
                  THEN [e EXCEPT ![req.body.key] = req.body.value] ELSE e]

\* op_set_env calling env::set_var before state.check_env()
op_set_env_set_before_check(st, e, req, obs) ==
  IF req.data THEN [out |-> Panic(132), env |-> e]
  ELSE IF ~req.body.present THEN [out |-> Panic(133), env |-> e]
  ELSE IF req.body.key = Missing THEN [out |-> Panic(134), env |-> e]
  ELSE IF req.body.value = Missing THEN [out |-> Panic(135), env |-> e]
  ELSE IF req.body.key \in BadKeys THEN [out |-> Panic(137), env |-> e]
  ELSE IF check_env(st) # "Ok"
    THEN [out |-> Err(check_env(st)),
          env |-> [e EXCEPT ![req.body.key] = req.body.value]]
  ELSE [out |-> OkBuf(empty_buf),
        env |-> [e EXCEPT ![req.body.key] = req.body.value]]

op_set_env(st, e, req, obs) ==
  IF req.data THEN [out |-> Panic(132), env |-> e]
  ELSE IF ~req.body.present THEN [out |-> Panic(133), env |-> e]
  ELSE IF req.body.key = Missing THEN [out |-> Panic(134), env |-> e]
  ELSE IF req.body.value = Missing THEN [out |-> Panic(135), env |-> e]
  ELSE IF check_env(st) # "Ok" THEN [out |-> Err(check_env(st)), env |-> e]
  ELSE IF req.body.key \in BadKeys THEN [out |-> Panic(137), env |-> e]
  ELSE [out |-> OkBuf(empty_buf),
        env |-> [e EXCEPT ![req.body.key] = req.body.value]]

op_env(st, e, req, obs) ==
  IF check_env(st) # "Ok" THEN [out |-> Err(check_env(st)), env |-> e]
  ELSE IF \E k \in DOMAIN e : e[k] = NonUnicode
    THEN [out |-> Panic(147), env |-> e]
  ELSE [out |-> OkJson([k \in {x \in DOMAIN e : e[x] # Unset} |-> e[k]]),
        env |-> e]

\* op_exit handing the code back as a result instead of ending the process
op_exit_returns(st, e, req, obs) ==
  IF req.body.t = "i32"
    THEN [out |-> OkJson(req.body.v), env |-> e]
    ELSE [out |-> Err("DecodeError"), env |-> e]

op_exit(st, e, req, obs) ==
  IF req.body.t = "i32"
    THEN [out |-> Exited(req.body.v), env |-> e]
    ELSE [out |-> Err("DecodeError"), env |-> e]

\* op_is_tty asking for Stream::Stdout twice
op_is_tty_stdout_twice(st, e, req, obs) ==
  [out |-> OkJson([stdin |-> obs.tty["stdin"],
                   stdout |-> obs.tty["stdout"],
                   stderr |-> obs.tty["stdout"]]),
   env |-> e]

\* op_is_tty behind state.check_env()
op_is_tty_gated(st, e, req, obs) ==
  IF check_env(st) # "Ok" THEN [out |-> Err(check_env(st)), env |-> e]
  ELSE [out |-> OkJson([stdin |-> obs.tty["stdin"],
                        stdout |-> obs.tty["stdout"],
                        stderr |-> obs.tty["stderr"]]),
        env |-> e]

op_is_tty(st, e, req, obs) ==
  [out |-> OkJson([stdin |-> obs.tty["stdin"],
                   stdout |-> obs.tty["stdout"],
                   stderr |-> obs.tty["stderr"]]),
   env |-> e]

\* ---------------------------------------------------------------- router
\* what reaches the caller for a handler's outcome
Respond(cmd_id, out) ==
  CASE out.kind = "Buf" -> out.buf
    [] out.kind = "Json" -> [cmd_id |-> cmd_id, ok |-> out.value]
    [] out.kind = "Err" -> [cmd_id |-> cmd_id, err |-> out.err]
    [] OTHER -> NoResponse

\* Dispatch Router: the handler registered for the request's operation
Handle(st, e, req, obs) ==
  CASE req.op = "start" -> op_start(st, e, req, obs)
    [] req.op = "home_dir" -> op_home_dir(st, e, req, obs)
    [] req.op = "exec_path" -> op_exec_path(st, e, req, obs)
    [] req.op = "set_env" -> op_set_env(st, e, req, obs)
    [] req.op = "env" -> op_env(st, e, req, obs)
    [] req.op = "exit" -> op_exit(st, e, req, obs)
    [] req.op = "is_tty" -> op_is_tty(st, e, req, obs)

\* one dispatch on the running process: the handler runs to its end and its
\* outcome is delivered (or the process is gone)
Dispatch(req, obs) ==
  LET r == Handle(state, env, req, obs)
  IN /\ proc = "running"
     /\ env' = r.env
     /\ proc' = CASE r.out.kind = "Panic" -> "panicked"
                  [] r.out.kind = "Exit" -> "exited"
                  [] OTHER -> proc
     /\ exit_code' = IF r.out.kind = "Exit" THEN r.out.code ELSE exit_code
     /\ last' = [req |-> req, obs |-> obs, out |-> r.out,
                 resp |-> Respond(req.cmd_id, r.out), env_before |-> env]
     /\ UNCHANGED state

Req(op, cmd_id, data, body) ==
  [op |-> op, cmd_id |-> cmd_id, data |-> data, body |-> body]

Start ==
  \E c \in CmdIds, d \in BOOLEAN, obs \in StartObs :
    /\ Dispatch(Req("start", c, d, NoBody), obs)
    /\ UNCHANGED <<written, held>>

HomeDir ==
  \E c \in CmdIds, d \in BOOLEAN, obs \in HomeObs :
    /\ Dispatch(Req("home_dir", c, d, NoBody), obs)
    /\ UNCHANGED <<written, held>>

ExecPath ==
  \E c \in CmdIds, d \in BOOLEAN, obs \in ExeObs :
    /\ Dispatch(Req("exec_path", c, d, NoBody), obs)
    /\ UNCHANGED <<written, held>>

SetEnv ==
  \E c \in CmdIds, d \in BOOLEAN, b \in SetEnvInners :
    /\ Dispatch(Req("set_env", c, d, b), NoObs)
    /\ UNCHANGED <<written, held>>

Env ==
  \E c \in CmdIds, d \in BOOLEAN :
    /\ Dispatch(Req("env", c, d, NoBody), NoObs)
    /\ UNCHANGED <<written, held>>

Exit ==
  \E c \in CmdIds, d \in BOOLEAN, a \in ExitArgs :
    /\ Dispatch(Req("exit", c, d, a), NoObs)
    /\ UNCHANGED <<written, held>>

IsTty ==
  \E c \in CmdIds, d \in BOOLEAN, obs \in TtyObs :
    /\ Dispatch(Req("is_tty", c, d, NoBody), obs)
    /\ UNCHANGED <<written, held>>

\* the same two environment operations, with the caller keeping what it
\* wrote and what it read
SetEnvCall ==
  \E c \in CmdIds, d \in BOOLEAN, b \in SetEnvInners :
    /\ Dispatch(Req("set_env", c, d, b), NoObs)
    /\ written' = IF last'.out.kind = "Buf"
                    THEN [written EXCEPT ![b.key] = b.value]
                    ELSE written
    /\ UNCHANGED held

EnvCall ==
  \E c \in CmdIds, d \in BOOLEAN :
    /\ Dispatch(Req("env", c, d, NoBody), NoObs)
    /\ held' = IF last'.out.kind = "Json" THEN HostOk(last'.out.value) ELSE held
    /\ UNCHANGED written

Init ==
  /\ state \in SandboxStates
  /\ env \in InitEnvs
  /\ proc = "running"
  /\ exit_code = 0
  /\ last = [req |-> Req("none", 0, FALSE, NoBody), obs |-> NoObs,
             out |-> [kind |-> "None"], resp |-> NoResponse, env_before |-> env]
  /\ written = [k \in GoodKeys |-> Unset]
  /\ held = HostErr

Next == Start \/ HomeDir \/ ExecPath \/ SetEnv \/ Env \/ Exit \/ IsTty

Spec == Init /\ [][Next]_vars

NextEnv == SetEnvCall \/ EnvCall

SpecEnv == Init /\ [][NextEnv]_vars

\* ------------------------------------------------------------ vocabulary
GatedOps == {"home_dir", "exec_path", "set_env", "env"}
UngatedOps == {"start", "exit", "is_tty"}

Ran(op) == last.req.op = op

\* C1 (as claimed): a gated operation dispatched (without a raw payload, as
\* registered) while the gate denies the environment category returns the
\* permission-denial error, leaves the process environment as it was and
\* leaves the process running.
C1_DeniedReturnsPermissionError ==
  (last.req.op \in GatedOps /\ ~state.allow_env /\ ~last.req.data)
    => /\ last.out = Err("PermissionDenied")
       /\ env = last.env_before
       /\ proc = "running"

\* C2 (as claimed): every response carries its request's command id, the
\* acknowledgement of set_env included.
C2_EveryResponseCarriesCmdId ==
  (last.resp # NoResponse)
    => /\ "cmd_id" \in DOMAIN last.resp
       /\ last.resp.cmd_id = last.req.cmd_id

\* C2 (amended): every response carries its request's command id, except the
\* acknowledgement of a successful set_env, which is the empty buffer and
\* carries no command id at all.
C2_ResponseCmdIdExceptEmptyAck ==
  (last.resp # NoResponse)
    => IF Ran("set_env") /\ last.out.kind = "Buf"
         THEN "cmd_id" \notin DOMAIN last.resp
         ELSE /\ "cmd_id" \in DOMAIN last.resp
              /\ last.resp.cmd_id = last.req.cmd_id

C2_Witness ==
  /\ Ran("home_dir")
  /\ last.out.kind = "Buf"
  /\ last.req.cmd_id = MaxCmdId
  /\ last.resp.cmd_id = MaxCmdId

\* a read that returns a mapping returns, for every name set before, the value
\* of the latest set of that name, and the mapping is the environment as it
\* was at the call
C3_ReadShowsLatestSet ==
  (Ran("env") /\ last.out.kind = "Json")
    => /\ \A k \in GoodKeys :
            written[k] # Unset
              => /\ k \in DOMAIN last.out.value
                 /\ last.out.value[k] = written[k]
       /\ \A k \in GoodKeys :
            IF last.env_before[k] = Unset
              THEN k \notin DOMAIN last.out.value
              ELSE /\ k \in DOMAIN last.out.value
                   /\ last.out.value[k] = last.env_before[k]
       /\ last.resp.ok = last.out.value

\* the mapping the caller holds changes only by a read that returns one
C3_HeldIsSnapshot ==
  (held' # held)
    => /\ last'.req.op = "env"
       /\ last'.out.kind = "Json"
       /\ held' = HostOk(last'.out.value)

C4_ExecPathFailureIsAnError ==
  (Ran("exec_path") /\ state.allow_env
     /\ (~last.obs.exe.ok \/ ~last.obs.exe.v.abs))
    => /\ last.out.kind = "Err"
       /\ proc = "running"

\* C5 (as claimed): a request with a required field missing (set_env without
\* its inner message, key or value; exit without an integer code) gets an
\* error for that request only: the process keeps running, the environment is
\* untouched.
MalformedFields(req) ==
  \/ /\ req.op = "set_env"
     /\ ~req.data
     /\ (~req.body.present \/ req.body.key = Missing \/ req.body.value = Missing)
  \/ /\ req.op = "exit"
     /\ req.body.t # "i32"

C5_MalformedIsRecoverable ==
  MalformedFields(last.req)
    => /\ last.out.kind = "Err"
       /\ proc = "running"
       /\ env = last.env_before

\* exit with an integer code has ended the process with that code and handed
\* back no response; an exited process was ended by such an exit
C6_ExitState ==
  /\ (Ran("exit") /\ last.req.body.t = "i32")
       => /\ proc = "exited"
          /\ exit_code = last.req.body.v
          /\ last.resp = NoResponse
  /\ proc = "exited" => (Ran("exit") /\ last.req.body.t = "i32")

C7_HomeDirNeverFails ==
  (Ran("home_dir") /\ state.allow_env /\ ~last.req.data)
    => /\ last.out.kind = "Buf"
       /\ last.out.buf.inner_type = "HomeDirRes"
       /\ last.out.buf.inner.path =
            (IF last.obs.home \in {NoHome, NonUnicode} THEN "" ELSE last.obs.home)
       /\ proc = "running"

C7_Witness ==
  /\ Ran("home_dir")
  /\ state.allow_env
  /\ last.obs.home = NoHome
  /\ last.out.kind = "Buf"
  /\ last.out.buf.inner.path = ""

\* C8: is_tty always returns Ok at once, and each of stdin, stdout, stderr in
\* the result is the terminal attachment of that stream alone.
C8_IsTtyPerStream ==
  Ran("is_tty")
    => /\ last.out.kind = "Json"
       /\ DOMAIN last.out.value = Streams
       /\ \A s \in Streams : last.out.value[s] = last.obs.tty[s]
       /\ last.resp.ok = last.out.value
       /\ proc = "running"

C8_Witness ==
  /\ Ran("is_tty")
  /\ last.out.kind = "Json"
  /\ last.out.value = [stdin |-> FALSE, stdout |-> TRUE, stderr |-> TRUE]

\* C9: start, exit and is_tty do not depend on the permission policy: what
\* the operation did is what it does on the same request, environment and
\* host with the permission granted, and with it denied.
C9_UngatedIgnorePermissions ==
  (last.req.op \in UngatedOps)
    => \A a \in BOOLEAN :
         Handle([state EXCEPT !.allow_env = a], last.env_before, last.req, last.obs)
           = [out |-> last.out, env |-> env]

C9_Witness ==
  /\ Ran("exit")
  /\ ~state.allow_env
  /\ proc = "exited"

\* one step: the sandbox state stays, and the environment changes only as the
\* effect of a set_env that passed the gate
C10_Frame ==
  /\ state' = state
  /\ (env' # env)
       => /\ last'.req.op = "set_env"
          /\ state.allow_env
          /\ last'.out.kind = "Buf"
          /\ \A k \in GoodKeys :
               env'[k] = IF k = last'.req.body.key
                           THEN last'.req.body.value ELSE env[k]

\* C10: the environment changes only by a set_env that passed the gate, and
\* then only at the name of the request, which gets the request's value; no
\* step of any operation changes the sandbox state.
C10_EnvChangesOnlyBySetEnv == [][C10_Frame]_vars

C10_Witness ==
  /\ Ran("set_env")
  /\ env # last.env_before
  /\ env["FOO"] = "bar"
  /\ last.env_before["FOO"] = "baz"

====
